---- MODULE Spec2Model ----
(***************************************************************************)
(* The document synchronisation layer of ChefDanaher: the blob store and   *)
(* the optimistic concurrency gate (netlify/functions/utils/blobs.ts, the  *)
(* state endpoint) and the client mutation queue (saveWithRetry in         *)
(* src/context/AppContext.tsx).                                            *)
(*                                                                         *)
(* Spec, SpecReliable and SpecReferencing: clients calling saveWithRetry   *)
(* against a gate that handles one request at a time and whose store reads *)
(* succeed.  The server's handling of a PUT and the client's continuation  *)
(* after the awaited response are one step: the continuation touches only  *)
(* that client's own variables, and an enqueue that arrives while the      *)
(* response is under way only appends to the queue, so the two orders of   *)
(* those steps reach the same state.  A caller invokes the saveWithRetry   *)
(* of the latest render, whose `state` is the value last passed to         *)
(* setState.                                                               *)
(*                                                                         *)
(* SpecOperations: one client that has fetched a document and calls the    *)
(* operations one after another.                                           *)
(*                                                                         *)
(* SpecRefresh: clients that also call refreshState, whose GET response    *)
(* arrives at any later time or not at all.                                *)
(*                                                                         *)
(* SpecViews: one client whose CalendarGrid and GroceryList render its     *)
(* local document.                                                         *)
(*                                                                         *)
(* SpecRace, SpecSerial and SpecHandler: the state endpoint by itself, the *)
(* read and the write of a gate invocation being separate steps; requests  *)
(* overlap (SpecRace, SpecHandler) and store accesses can fail             *)
(* (SpecSerial, SpecHandler).                                              *)
(***************************************************************************)
EXTENDS Integers, Sequences, FiniteSets, TLC

\* Total number of saveWithRetry calls made over all clients.
MaxOps == 5

\* Default of the maxRetries parameter of saveWithRetry.
maxRetries == 3

\* Browser tabs / devices that share the document.
Clients == {"A", "B"}

OpIds == 1..MaxOps

VARIABLES
  blob,                 \* the store: <<>> (nothing stored) or <<document>>
  state,                \* per client: React state `state` (the local document)
  saveInProgressRef,    \* per client: saveInProgressRef.current
  pendingOperationsRef, \* per client: pendingOperationsRef.current
  pc,                   \* per client: where the running saveWithRetry call is suspended
  retries,              \* per client: local `retries`
  currentState,         \* per client: local `currentState`
  operation,            \* per client: parameter `operation` of the running call
  pendingOp,            \* per client: local `pendingOp` of the drain loop
  request,              \* per client: body of the PUT awaiting its response
  nextOp,               \* history: number of saveWithRetry calls made so far
  caller,               \* history: per call, the client that made it
  accepted,             \* history: ids of the operations the gate accepted, in order
  submissions,          \* history: per client, PUTs issued so far for the running call's own operation
  outcome,              \* history: per client, how its last call that started a submission ended
  confirmed,            \* history: per client, the last document the server returned to it
  outstanding,          \* history: per client, PUTs issued whose awaited call has not returned
  fetched,              \* per client: documents of GET responses on their way to refreshState
  views,                \* per client: what CalendarGrid and GroceryList computed at the last render
  handlerPc,            \* per client: where the handler of its HTTP request is suspended
  httpRequest,          \* per client: the HTTP request its handler was called with
  gateCurrentState,     \* per client: local `currentState` of checkVersionAndSave
  response,             \* per client: the last HTTP response it received
  nextReq,              \* history: number of HTTP requests made so far
  touched,              \* history: per client, store accesses made for its last request
  acceptedBases,        \* history: expectedVersion of each write the gate accepted, in order
  lastOp                \* history: the operation the gate accepted last and the version it was submitted with

clientVars == <<state, saveInProgressRef, pendingOperationsRef, pc, retries,
                currentState, operation, pendingOp, request,
                nextOp, caller, accepted, submissions, outcome, confirmed,
                outstanding, fetched, views>>

serverVars == <<handlerPc, httpRequest, gateCurrentState, response, nextReq,
                touched, acceptedBases>>

vars == <<blob, clientVars, serverVars, lastOp>>

----------------------------------------------------------------------------
\* Documents

defaultSettings == [recipeDecayDays |-> 60, suggestedRecipeDecayDays |-> 30]

defaultState ==
  [recipes |-> <<>>, calendar |-> <<>>, settings |-> defaultSettings, version |-> 0]

\* settings: state.settings || defaultSettings
ensureStateComplete(s) ==
  IF "settings" \in DOMAIN s
  THEN s
  ELSE [f \in (DOMAIN s) \cup {"settings"} |->
          IF f = "settings" THEN defaultSettings ELSE s[f]]

RecipeIds(doc) == {doc.recipes[i].id : i \in 1..Len(doc.recipes)}

----------------------------------------------------------------------------
\* Operations: transforms of the current document

\* recipeId of a DayPlan with no recipe.
null == 0

\* { ...rec, [field]: value }
Spread(rec, field, value) ==
  [f \in (DOMAIN rec) \cup {field} |-> IF f = field THEN value ELSE rec[f]]

\* calendar.findIndex((d) => d.date === date), counted from 1; 0 when no
\* entry has the date.
findIndex(calendar, date) ==
  IF \E i \in 1..Len(calendar) : calendar[i].date = date
  THEN CHOOSE i \in 1..Len(calendar) :
         /\ calendar[i].date = date
         /\ \A j \in 1..(i - 1) : calendar[j].date # date
  ELSE 0

\* day.groceriesPurchased as a condition: a missing field is falsy.
groceriesPurchased(day) ==
  IF "groceriesPurchased" \in DOMAIN day THEN day.groceriesPurchased ELSE FALSE

addRecipe(recipe, cur) == [cur EXCEPT !.recipes = Append(@, recipe)]

addRecipes(recipes, cur) == [cur EXCEPT !.recipes = @ \o recipes]

\* Variant: the calendar is left as it is.
removeRecipeKeepsDays(recipeId, cur) ==
  [cur EXCEPT !.recipes = SelectSeq(@, LAMBDA r : r.id # recipeId)]

removeRecipe(recipeId, cur) ==
  [cur EXCEPT
     !.recipes = SelectSeq(@, LAMBDA r : r.id # recipeId),
     !.calendar = [i \in 1..Len(cur.calendar) |->
                     IF cur.calendar[i].recipeId = recipeId
                     THEN Spread(cur.calendar[i], "recipeId", null)
                     ELSE cur.calendar[i]]]

assignRecipeToDay(date, recipeId, cur) ==
  LET existingDayIndex == findIndex(cur.calendar, date)
      newCalendar ==
        IF existingDayIndex >= 1
        THEN [i \in 1..Len(cur.calendar) |->
                IF i = existingDayIndex
                THEN Spread(cur.calendar[i], "recipeId", recipeId)
                ELSE cur.calendar[i]]
        ELSE Append(cur.calendar, [date |-> date, recipeId |-> recipeId])
  IN  [cur EXCEPT !.calendar = newCalendar]

clearDay(date, cur) ==
  [cur EXCEPT
     !.calendar = [i \in 1..Len(cur.calendar) |->
                     IF cur.calendar[i].date = date
                     THEN Spread(cur.calendar[i], "recipeId", null)
                     ELSE cur.calendar[i]]]

\* Variant: the entry is pushed whether or not the date has one.
updateOrAddDayPushes(newCalendar, date, recipeId) ==
  Append(newCalendar, [date |-> date, recipeId |-> recipeId])

\* newCalendar with the entry of `date` replaced by { date, recipeId }, or
\* that entry pushed when no entry has the date.
updateOrAddDay(newCalendar, date, recipeId) ==
  LET dayIndex == findIndex(newCalendar, date) IN
  IF dayIndex >= 1
  THEN [newCalendar EXCEPT ![dayIndex] = [date |-> date, recipeId |-> recipeId]]
  ELSE Append(newCalendar, [date |-> date, recipeId |-> recipeId])

\* Variant: only the first date's entry is written.
swapRecipesOneSide(date1, date2, cur) ==
  LET day2Index == findIndex(cur.calendar, date2)
      recipe2 == IF day2Index >= 1 THEN cur.calendar[day2Index].recipeId ELSE null
  IN  [cur EXCEPT !.calendar = updateOrAddDay(cur.calendar, date1, recipe2)]

swapRecipes(date1, date2, cur) ==
  LET day1Index == findIndex(cur.calendar, date1)
      day2Index == findIndex(cur.calendar, date2)
      recipe1 == IF day1Index >= 1 THEN cur.calendar[day1Index].recipeId ELSE null
      recipe2 == IF day2Index >= 1 THEN cur.calendar[day2Index].recipeId ELSE null
      withDay1 == updateOrAddDay(cur.calendar, date1, recipe2)
      newCalendar == updateOrAddDay(withDay1, date2, recipe1)
  IN  [cur EXCEPT !.calendar = newCalendar]

\* Variant: every recipe is stamped, not only the one the DayPlan names.
toggleGroceriesPurchasedStampsAll(date, cur) ==
  LET existingDayIndex == findIndex(cur.calendar, date) IN
  IF existingDayIndex >= 1
  THEN LET day == cur.calendar[existingDayIndex]
           wasNotPurchased == ~groceriesPurchased(day)
           newCalendar ==
             [cur.calendar EXCEPT
                ![existingDayIndex] = Spread(day, "groceriesPurchased", wasNotPurchased)]
           newRecipes ==
             IF wasNotPurchased /\ day.recipeId # null
             THEN [i \in 1..Len(cur.recipes) |-> Spread(cur.recipes[i], "lastUsedAt", date)]
             ELSE cur.recipes
       IN  [cur EXCEPT !.calendar = newCalendar, !.recipes = newRecipes]
  ELSE [cur EXCEPT
          !.calendar = Append(@, [date |-> date, recipeId |-> null,
                                  groceriesPurchased |-> TRUE])]

toggleGroceriesPurchased(date, cur) ==
  LET existingDayIndex == findIndex(cur.calendar, date) IN
  IF existingDayIndex >= 1
  THEN LET day == cur.calendar[existingDayIndex]
           wasNotPurchased == ~groceriesPurchased(day)
           newCalendar ==
             [cur.calendar EXCEPT
                ![existingDayIndex] = Spread(day, "groceriesPurchased", wasNotPurchased)]
           newRecipes ==
             IF wasNotPurchased /\ day.recipeId # null
             THEN [i \in 1..Len(cur.recipes) |->
                     IF cur.recipes[i].id = day.recipeId
                     THEN Spread(cur.recipes[i], "lastUsedAt", date)
                     ELSE cur.recipes[i]]
             ELSE cur.recipes
       IN  [cur EXCEPT !.calendar = newCalendar, !.recipes = newRecipes]
  ELSE [cur EXCEPT
          !.calendar = Append(@, [date |-> date, recipeId |-> null,
                                  groceriesPurchased |-> TRUE])]

\* The loop of applyMealPlan over the plan's assignments.
RECURSIVE assignPlan(_, _)
assignPlan(newCalendar, plan) ==
  IF plan = <<>>
  THEN newCalendar
  ELSE LET date == Head(plan).date
           recipe == Head(plan).recipe
           existingIndex == findIndex(newCalendar, date)
       IN  IF existingIndex >= 1
           THEN assignPlan([newCalendar EXCEPT
                              ![existingIndex] = Spread(@, "recipeId", recipe.id)],
                           Tail(plan))
           ELSE assignPlan(Append(newCalendar, [date |-> date, recipeId |-> recipe.id]),
                           Tail(plan))

\* Variant: a recipe is added for every assignment of the plan.
applyMealPlanAddsAll(plan, cur) ==
  [cur EXCEPT
     !.recipes = @ \o [i \in 1..Len(plan) |-> plan[i].recipe],
     !.calendar = assignPlan(@, plan)]

applyMealPlan(plan, cur) ==
  LET existingIds == RecipeIds(cur)
      planRecipes == [i \in 1..Len(plan) |-> plan[i].recipe]
      newRecipes == cur.recipes \o SelectSeq(planRecipes, LAMBDA r : r.id \notin existingIds)
  IN  [cur EXCEPT !.recipes = newRecipes, !.calendar = assignPlan(@, plan)]

\* Variant: the settings are not replaced.
updateSettingsKeeps(settings, cur) == cur

updateSettings(settings, cur) == [cur EXCEPT !.settings = settings]

\* The operation closures handed to saveWithRetry, with the number of the call
\* that handed them over.
AddOp(k, recipe) == [kind |-> "addRecipe", call |-> k, recipe |-> recipe]

AddRecipesOp(k, recipes) == [kind |-> "addRecipes", call |-> k, recipes |-> recipes]

RemoveRecipeOp(k, recipeId) == [kind |-> "removeRecipe", call |-> k, recipeId |-> recipeId]

AssignOp(k, date, recipeId) ==
  [kind |-> "assignRecipeToDay", call |-> k, date |-> date, recipeId |-> recipeId]

ClearDayOp(k, date) == [kind |-> "clearDay", call |-> k, date |-> date]

SwapOp(k, date1, date2) ==
  [kind |-> "swapRecipes", call |-> k, date1 |-> date1, date2 |-> date2]

ToggleOp(k, date) == [kind |-> "toggleGroceriesPurchased", call |-> k, date |-> date]

MealPlanOp(k, plan) == [kind |-> "applyMealPlan", call |-> k, plan |-> plan]

SettingsOp(k, settings) == [kind |-> "updateSettings", call |-> k, settings |-> settings]

\* addRecipe of a recipe made for call k.
AddRecipeOp(k) == AddOp(k, [id |-> k])

NoOp == [kind |-> "none", call |-> 0]

Apply(op, cur) ==
  CASE op.kind = "addRecipe" -> addRecipe(op.recipe, cur)
    [] op.kind = "addRecipes" -> addRecipes(op.recipes, cur)
    [] op.kind = "removeRecipe" -> removeRecipe(op.recipeId, cur)
    [] op.kind = "assignRecipeToDay" -> assignRecipeToDay(op.date, op.recipeId, cur)
    [] op.kind = "clearDay" -> clearDay(op.date, cur)
    [] op.kind = "swapRecipes" -> swapRecipes(op.date1, op.date2, cur)
    [] op.kind = "toggleGroceriesPurchased" -> toggleGroceriesPurchased(op.date, cur)
    [] op.kind = "applyMealPlan" -> applyMealPlan(op.plan, cur)
    [] op.kind = "updateSettings" -> updateSettings(op.settings, cur)
    [] OTHER -> cur

OpId(op) == op.call

----------------------------------------------------------------------------
\* Store and gate (server)

getState(b) == IF Len(b) > 0 THEN b[1] ELSE defaultState

saveState(b, doc) == <<doc>>

\* Variant: the version comparison is left out.
checkVersionAndSaveUnchecked(b, newState, expectedVersion) ==
  LET updatedState == [newState EXCEPT !.version = expectedVersion + 1]
  IN  [success |-> TRUE, state |-> updatedState, blob |-> saveState(b, updatedState)]

\* Variant: a rejection hands back the proposed document, not the stored one.
checkVersionAndSaveEchoes(b, newState, expectedVersion) ==
  LET cur == getState(b) IN
  IF cur.version # expectedVersion
  THEN [success |-> FALSE, state |-> newState, blob |-> b]
  ELSE LET updatedState == [newState EXCEPT !.version = expectedVersion + 1]
       IN  [success |-> TRUE, state |-> updatedState, blob |-> saveState(b, updatedState)]

\* Variant: the proposed document is stored as it was sent, with the version
\* it came with.
checkVersionAndSaveStoresSent(b, newState, expectedVersion) ==
  LET cur == getState(b) IN
  IF cur.version # expectedVersion
  THEN [success |-> FALSE, state |-> cur, blob |-> b]
  ELSE LET updatedState == [newState EXCEPT !.version = expectedVersion + 1]
       IN  [success |-> TRUE, state |-> updatedState, blob |-> saveState(b, newState)]

checkVersionAndSave(b, newState, expectedVersion) ==
  LET cur == getState(b) IN
  IF cur.version # expectedVersion
  THEN [success |-> FALSE, state |-> cur, blob |-> b]
  ELSE LET updatedState == [newState EXCEPT !.version = expectedVersion + 1]
       IN  [success |-> TRUE, state |-> updatedState, blob |-> saveState(b, updatedState)]

\* The PUT branch of the state endpoint: 409 with the stored document on a
\* version conflict, 200 with the document written otherwise.
putState(b, body) ==
  LET result == checkVersionAndSave(b, body.state, body.version) IN
  IF ~result.success
  THEN [status |-> 409, state |-> result.state, blob |-> result.blob]
  ELSE [status |-> 200, state |-> result.state, blob |-> result.blob]

----------------------------------------------------------------------------
\* State endpoint (server), one store access per step

\* Total number of HTTP requests made over all clients.
MaxRequests == 4

\* Largest version number a PUT body names.
MaxBodyVersion == 2

\* JSON values of the body's version field.
JsNumber(n) == [type |-> "number", value |-> n]

JsString(n) == [type |-> "string", value |-> n]

typeof(v) == v.type

\* Session cookie of a request: absent, not verifiable, verifiable.
Tokens == {"none", "invalid", "valid"}

BodyVersions == {JsNumber(n) : n \in 0..MaxBodyVersion} \cup {JsString(1)}

\* The requests the k-th request is drawn from; a PUT proposes a document of
\* its own.
HttpRequests(k) ==
  {[method |-> m, token |-> t] : m \in {"GET", "POST"}, t \in Tokens} \cup
  {[method |-> "PUT", token |-> t,
    body |-> [state |-> addRecipe([id |-> k], defaultState), version |-> v]] :
     t \in Tokens, v \in BodyVersions}

NoHttpRequest == [method |-> "none", token |-> "none"]

NoResponse == [status |-> 0, body |-> [error |-> "none"]]

verifyToken(token) == token = "valid"

authenticateRequest(req) ==
  IF req.token = "none"
  THEN [user |-> "null"]
  ELSE IF ~verifyToken(req.token)
       THEN [user |-> "null"]
       ELSE [user |-> "chef"]

unauthorizedResponse == [status |-> 401, body |-> [error |-> "Unauthorized"]]

\* Variant: the method is looked at before the authentication result.
handlerUnauthenticated(req) ==
  IF req.method = "GET"
  THEN "getState"
  ELSE IF authenticateRequest(req).user = "null"
       THEN "401"
       ELSE IF req.method = "PUT"
            THEN IF typeof(req.body.version) # "number"
                 THEN "400"
                 ELSE "checkVersionAndSave"
            ELSE "405"

\* The handler up to its first store access: the response it returns without
\* one, or the store function it calls.
handler(req) ==
  IF authenticateRequest(req).user = "null"
  THEN "401"
  ELSE IF req.method = "GET"
       THEN "getState"
       ELSE IF req.method = "PUT"
            THEN IF typeof(req.body.version) # "number"
                 THEN "400"
                 ELSE "checkVersionAndSave"
            ELSE "405"

\* A request of client c reaches the handler.
Arrive(c, req) ==
  /\ handlerPc[c] = "idle"
  /\ nextReq < MaxRequests
  /\ httpRequest' = [httpRequest EXCEPT ![c] = req]
  /\ nextReq' = nextReq + 1

\* The handler returns without having called a store function.
Respond(c, resp) ==
  /\ response' = [response EXCEPT ![c] = resp]
  /\ touched' = [touched EXCEPT ![c] = {}]
  /\ UNCHANGED <<blob, handlerPc, gateCurrentState, acceptedBases, clientVars, lastOp>>

Unauthorized(c) ==
  \E req \in HttpRequests(nextReq + 1) :
    /\ Arrive(c, req)
    /\ handler(req) = "401"
    /\ Respond(c, unauthorizedResponse)

VersionRequired(c) ==
  \E req \in HttpRequests(nextReq + 1) :
    /\ Arrive(c, req)
    /\ handler(req) = "400"
    /\ Respond(c, [status |-> 400, body |-> [error |-> "Version number required"]])

MethodNotAllowed(c) ==
  \E req \in HttpRequests(nextReq + 1) :
    /\ Arrive(c, req)
    /\ handler(req) = "405"
    /\ Respond(c, [status |-> 405, body |-> [error |-> "Method not allowed"]])

\* GET: getState returns document st (the stored one, or the default when
\* store.get throws).
GetAnswered(c, st) ==
  \E req \in HttpRequests(nextReq + 1) :
    /\ Arrive(c, req)
    /\ handler(req) = "getState"
    /\ response' = [response EXCEPT ![c] =
                      [status |-> 200, body |-> [state |-> st, version |-> st.version]]]
    /\ touched' = [touched EXCEPT ![c] = {"read"}]
    /\ UNCHANGED <<blob, handlerPc, gateCurrentState, acceptedBases, clientVars, lastOp>>

HandleGet(c) == GetAnswered(c, getState(blob))

HandleGetReadFails(c) == GetAnswered(c, defaultState)

\* PUT: checkVersionAndSave up to the return of its getState call, which
\* returns document st.
GateEntered(c, st) ==
  \E req \in HttpRequests(nextReq + 1) :
    /\ Arrive(c, req)
    /\ handler(req) = "checkVersionAndSave"
    /\ gateCurrentState' = [gateCurrentState EXCEPT ![c] = st]
    /\ handlerPc' = [handlerPc EXCEPT ![c] = "gate"]
    /\ touched' = [touched EXCEPT ![c] = {"read"}]
    /\ UNCHANGED <<blob, response, acceptedBases, clientVars, lastOp>>

GateRead(c) == GateEntered(c, getState(blob))

GateReadFails(c) == GateEntered(c, defaultState)

\* checkVersionAndSave after its read: the versions differ, 409 with the
\* document read.
GateReject(c) ==
  /\ handlerPc[c] = "gate"
  /\ gateCurrentState[c].version # httpRequest[c].body.version.value
  /\ response' = [response EXCEPT ![c] =
                    [status |-> 409,
                     body |-> [error |-> "Version conflict", state |-> gateCurrentState[c]]]]
  /\ handlerPc' = [handlerPc EXCEPT ![c] = "idle"]
  /\ gateCurrentState' = [gateCurrentState EXCEPT ![c] = defaultState]
  /\ UNCHANGED <<blob, httpRequest, nextReq, touched, acceptedBases, clientVars, lastOp>>

\* checkVersionAndSave after its read: the versions agree, the proposed
\* document is written with the next version, 200.
GateAccept(c) ==
  /\ handlerPc[c] = "gate"
  /\ LET expectedVersion == httpRequest[c].body.version.value
         updatedState == [httpRequest[c].body.state EXCEPT !.version = expectedVersion + 1]
     IN
     /\ gateCurrentState[c].version = expectedVersion
     /\ blob' = saveState(blob, updatedState)
     /\ response' = [response EXCEPT ![c] =
                       [status |-> 200,
                        body |-> [state |-> updatedState, version |-> updatedState.version]]]
     /\ acceptedBases' = Append(acceptedBases, expectedVersion)
  /\ handlerPc' = [handlerPc EXCEPT ![c] = "idle"]
  /\ gateCurrentState' = [gateCurrentState EXCEPT ![c] = defaultState]
  /\ touched' = [touched EXCEPT ![c] = @ \cup {"write"}]
  /\ UNCHANGED <<httpRequest, nextReq, clientVars, lastOp>>

\* checkVersionAndSave after its read: the versions agree and store.setJSON
\* throws; the handler's catch answers 500.
GateSaveFails(c) ==
  /\ handlerPc[c] = "gate"
  /\ gateCurrentState[c].version = httpRequest[c].body.version.value
  /\ response' = [response EXCEPT ![c] =
                    [status |-> 500, body |-> [error |-> "Internal server error"]]]
  /\ handlerPc' = [handlerPc EXCEPT ![c] = "idle"]
  /\ gateCurrentState' = [gateCurrentState EXCEPT ![c] = defaultState]
  /\ UNCHANGED <<blob, httpRequest, nextReq, touched, acceptedBases, clientVars, lastOp>>

----------------------------------------------------------------------------
\* Client (AppProvider)

NoRequest == [state |-> defaultState, version |-> 0]

NoCall == [op |-> NoOp, base |-> 0]

\* Total number of calls of the client that calls the operations one after
\* another.
MaxCalls == 2

RecipeIdSet == {1, 2}

Dates == {1, 2}

Recipes == {[id |-> r] : r \in RecipeIdSet}

SettingsSet == {defaultSettings, [recipeDecayDays |-> 90, suggestedRecipeDecayDays |-> 14]}

\* Lists of different recipes.
RecipeLists ==
  {<<r>> : r \in Recipes}
  \cup {l \in {<<r, q>> : r \in Recipes, q \in Recipes} : l[1] # l[2]}

PlanEntries == [date : Dates, recipe : Recipes]

Plans == {<<p>> : p \in PlanEntries} \cup {<<p, q>> : p \in PlanEntries, q \in PlanEntries}

\* The operations call k can hand over.
Operations(k) ==
  {AddOp(k, r) : r \in Recipes}
  \cup {AddRecipesOp(k, l) : l \in RecipeLists}
  \cup {RemoveRecipeOp(k, r) : r \in RecipeIdSet}
  \cup {AssignOp(k, d, r) : d \in Dates, r \in RecipeIdSet}
  \cup {ClearDayOp(k, d) : d \in Dates}
  \cup {SwapOp(k, d1, d2) : d1 \in Dates, d2 \in Dates}
  \cup {ToggleOp(k, d) : d \in Dates}
  \cup {MealPlanOp(k, p) : p \in Plans}
  \cup {SettingsOp(k, st) : st \in SettingsSet}

\* DayPlans naming a recipe of `ids` or none.
DayPlans(ids) == {[date |-> d, recipeId |-> r] : d \in Dates, r \in ids \cup {null}}

\* Calendars in date order with at most one DayPlan per date.
Calendars(ids) ==
  {<<>>}
  \cup {<<x>> : x \in DayPlans(ids)}
  \cup {cal \in {<<x, y>> : x \in DayPlans(ids), y \in DayPlans(ids)} :
          cal[1].date < cal[2].date}

LoadedRecipes == {<<>>, <<[id |-> 1]>>, <<[id |-> 1], [id |-> 2]>>}

\* Documents a client can have fetched: recipes unique by id, at most one
\* DayPlan per date, every DayPlan naming a recipe of the document or none.
LoadedDocuments ==
  UNION {{[recipes |-> R, calendar |-> C, settings |-> defaultSettings, version |-> 1] :
            C \in Calendars({R[i].id : i \in 1..Len(R)})} : R \in LoadedRecipes}

----------------------------------------------------------------------------
\* Derived views (CalendarGrid, GroceryList)

\* JavaScript's undefined and a null Recipe.
undefined == [type |-> "undefined"]

nullRecipe == [type |-> "null"]

\* What rendering GroceryList ends with when a property of undefined is read.
TypeError == [type |-> "TypeError"]

\* Name and ingredients of the recipes, by id.
RecipeCards ==
  [r \in RecipeIdSet |->
     IF r = 1
     THEN [name |-> "chili",
           ingredients |-> <<[name |-> "Beans", amount |-> 2, unit |-> "can", section |-> "pantry"],
                             [name |-> "rice", amount |-> 1, unit |-> "cup", section |-> "pantry"]>>]
     ELSE [name |-> "burrito",
           ingredients |-> <<[name |-> "beans", amount |-> 1, unit |-> "can", section |-> "pantry"]>>]]

toLowerCase(name) == IF name = "Beans" THEN "beans" ELSE name

\* format(addDays(today, i), 'yyyy-MM-dd') for the days shown, today first.
dateStrs == <<1, 2>>

\* array.find((x) => x[field] === value): the first such element, or undefined.
find(array, field, value) ==
  IF \E i \in 1..Len(array) : array[i][field] = value
  THEN array[CHOOSE i \in 1..Len(array) :
               /\ array[i][field] = value
               /\ \A j \in 1..(i - 1) : array[j][field] # value]
  ELSE undefined

\* dayPlan?.recipeId as a condition.
hasRecipeId(dayPlan) == dayPlan # undefined /\ dayPlan.recipeId # null

\* dayPlan?.groceriesPurchased || false
purchasedOrFalse(dayPlan) == dayPlan # undefined /\ groceriesPurchased(dayPlan)

getDayData(doc, dateStr) ==
  LET dayPlan == find(doc.calendar, "date", dateStr)
      found == find(doc.recipes, "id", dayPlan.recipeId)
      recipe == IF hasRecipeId(dayPlan)
                THEN IF found # undefined THEN found ELSE nullRecipe
                ELSE nullRecipe
  IN  [recipe |-> recipe, groceriesPurchased |-> purchasedOrFalse(dayPlan)]

\* The `days` of GroceryList.
groceryDays(doc) ==
  [i \in 1..Len(dateStrs) |->
     LET dayPlan == find(doc.calendar, "date", dateStrs[i]) IN
     [dateStr |-> dateStrs[i],
      purchased |-> purchasedOrFalse(dayPlan),
      hasRecipe |-> hasRecipeId(dayPlan)]]

\* The ingredients of the recipes in order, each with its recipe's name.
RECURSIVE ingredientsOf(_)
ingredientsOf(recipes) ==
  IF recipes = <<>>
  THEN <<>>
  ELSE LET card == RecipeCards[Head(recipes).id] IN
       [i \in 1..Len(card.ingredients) |-> [ing |-> card.ingredients[i], recipe |-> card.name]]
       \o ingredientsOf(Tail(recipes))

\* The forEach loops over recipes and ingredients that fill itemMap.
RECURSIVE aggregate(_, _)
aggregate(itemMap, entries) ==
  IF entries = <<>>
  THEN itemMap
  ELSE LET ing == Head(entries).ing
           recipeName == Head(entries).recipe
           key == <<toLowerCase(ing.name), ing.unit>>
           existing == find(itemMap, "key", key)
       IN  IF existing # undefined
           THEN aggregate(
                  [i \in 1..Len(itemMap) |->
                     IF itemMap[i].key = key
                     THEN [itemMap[i] EXCEPT
                             !.totalAmount = @ + ing.amount,
                             !.recipes = IF \E k \in 1..Len(@) : @[k] = recipeName
                                         THEN @
                                         ELSE Append(@, recipeName)]
                     ELSE itemMap[i]],
                  Tail(entries))
           ELSE aggregate(
                  Append(itemMap, [key |-> key, name |-> ing.name, totalAmount |-> ing.amount,
                                   unit |-> ing.unit, section |-> ing.section,
                                   recipes |-> <<recipeName>>]),
                  Tail(entries))

\* The `groceryItems` of GroceryList: the items, or the TypeError that reading
\* `ingredients` of undefined throws.
groceryItems(doc) ==
  LET days == groceryDays(doc)
      daysToInclude == SelectSeq(days, LAMBDA d : d.hasRecipe /\ ~d.purchased)
      mapped == [i \in 1..Len(daysToInclude) |->
                   LET dayPlan == find(doc.calendar, "date", daysToInclude[i].dateStr) IN
                   IF ~hasRecipeId(dayPlan)
                   THEN nullRecipe
                   ELSE find(doc.recipes, "id", dayPlan.recipeId)]
      recipes == SelectSeq(mapped, LAMBDA r : r # nullRecipe)
  IN  IF \E i \in 1..Len(recipes) : recipes[i] = undefined
      THEN TypeError
      ELSE [items |-> aggregate(<<>>, ingredientsOf(recipes))]

\* Nothing has been rendered.
NoViews == [rendered |-> FALSE]

\* CalendarGrid and GroceryList render the client's local document.
Render(c) ==
  /\ views' = [views EXCEPT ![c] =
                 [rendered |-> TRUE,
                  doc |-> state[c],
                  dayData |-> [i \in 1..Len(dateStrs) |-> getDayData(state[c], dateStrs[i])],
                  groceryItems |-> groceryItems(state[c])]]
  /\ UNCHANGED <<blob, state, saveInProgressRef, pendingOperationsRef, pc, retries,
                 currentState, operation, pendingOp, request, nextOp, caller,
                 accepted, submissions, outcome, confirmed, outstanding, fetched>>
  /\ UNCHANGED <<serverVars, lastOp>>

\* No call and no request has been made.
InitIdle ==
  /\ saveInProgressRef = [c \in Clients |-> FALSE]
  /\ pendingOperationsRef = [c \in Clients |-> <<>>]
  /\ pc = [c \in Clients |-> "idle"]
  /\ retries = [c \in Clients |-> 0]
  /\ currentState = [c \in Clients |-> defaultState]
  /\ operation = [c \in Clients |-> NoOp]
  /\ pendingOp = [c \in Clients |-> NoOp]
  /\ request = [c \in Clients |-> NoRequest]
  /\ nextOp = 0
  /\ caller = [k \in OpIds |-> "-"]
  /\ accepted = <<>>
  /\ submissions = [c \in Clients |-> 0]
  /\ outcome = [c \in Clients |-> "none"]
  /\ outstanding = [c \in Clients |-> 0]
  /\ fetched = [c \in Clients |-> {}]
  /\ views = [c \in Clients |-> NoViews]
  /\ handlerPc = [c \in Clients |-> "idle"]
  /\ httpRequest = [c \in Clients |-> NoHttpRequest]
  /\ gateCurrentState = [c \in Clients |-> defaultState]
  /\ response = [c \in Clients |-> NoResponse]
  /\ nextReq = 0
  /\ touched = [c \in Clients |-> {}]
  /\ acceptedBases = <<>>
  /\ lastOp = NoCall

Init ==
  /\ blob = <<>>
  /\ state = [c \in Clients |-> defaultState]
  /\ confirmed = [c \in Clients |-> defaultState]
  /\ InitIdle

\* The store holds a document and the clients have fetched it.
InitLoaded ==
  \E d \in LoadedDocuments :
    /\ blob = <<d>>
    /\ state = [c \in Clients |-> d]
    /\ confirmed = [c \in Clients |-> d]
    /\ InitIdle

\* saveWithRetry(operation) while a save is in progress: the operation is
\* queued and the call returns true.
QueueOperation(c, op) ==
  /\ nextOp < MaxOps
  /\ saveInProgressRef[c]
  /\ LET k == nextOp + 1 IN
     /\ pendingOperationsRef' =
          [pendingOperationsRef EXCEPT ![c] = Append(@, op)]
     /\ nextOp' = k
     /\ caller' = [caller EXCEPT ![k] = c]
  /\ UNCHANGED <<blob, state, saveInProgressRef, pc, retries, currentState,
                 operation, pendingOp, request, accepted, submissions, outcome,
                 confirmed, outstanding>>
  /\ UNCHANGED <<serverVars, lastOp, fetched, views>>

\* Variant: the flag is left as it is when a call starts a save.
markInProgressSkipped(c) == saveInProgressRef

\* saveInProgressRef.current = true
markInProgress(c) == [saveInProgressRef EXCEPT ![c] = TRUE]

\* saveWithRetry(operation) with no save in progress, up to its first await:
\* the flag is set, the operation is applied to `state`, the candidate becomes
\* the local document and is PUT with the version of the document it was built
\* on.
StartOperation(c, op) ==
  /\ nextOp < MaxOps
  /\ ~saveInProgressRef[c]
  /\ LET k == nextOp + 1
         cur == state[c]
         newState == Apply(op, cur)
     IN
     /\ saveInProgressRef' = markInProgress(c)
     /\ retries' = [retries EXCEPT ![c] = 0]
     /\ currentState' = [currentState EXCEPT ![c] = cur]
     /\ operation' = [operation EXCEPT ![c] = op]
     /\ state' = [state EXCEPT ![c] = newState]
     /\ request' = [request EXCEPT ![c] = [state |-> newState, version |-> cur.version]]
     /\ pc' = [pc EXCEPT ![c] = "awaitHead"]
     /\ nextOp' = k
     /\ caller' = [caller EXCEPT ![k] = c]
     /\ submissions' = [submissions EXCEPT ![c] = 1]
     /\ outstanding' = [outstanding EXCEPT ![c] = @ + 1]
  /\ UNCHANGED <<blob, pendingOperationsRef, pendingOp, accepted, outcome, confirmed>>
  /\ UNCHANGED <<serverVars, lastOp, fetched, views>>

\* addRecipe of a new recipe while a save is in progress.
saveWithRetryQueued(c) == QueueOperation(c, AddRecipeOp(nextOp + 1))

\* addRecipe of a new recipe with no save in progress.
saveWithRetryStart(c) == StartOperation(c, AddRecipeOp(nextOp + 1))

\* Dates the operations of ReferencingOps name.
ReferencingDates == {1}

\* The operations call k of client c can hand over when every recipe id an
\* operation names is in the client's local document: addRecipe of a new
\* recipe, removeRecipe and assignRecipeToDay of a recipe shown.
ReferencingOps(c, k) ==
  {AddRecipeOp(k)}
  \cup {RemoveRecipeOp(k, r) : r \in RecipeIds(state[c])}
  \cup {AssignOp(k, d, r) : d \in ReferencingDates, r \in RecipeIds(state[c])}

ReferencingQueued(c) ==
  \E op \in ReferencingOps(c, nextOp + 1) : QueueOperation(c, op)

ReferencingStart(c) ==
  \E op \in ReferencingOps(c, nextOp + 1) : StartOperation(c, op)

\* Variant: the flag is not cleared when the call ends.
finallyKeep(c) == saveInProgressRef

\* The finally block: the flag is cleared when the running call ends.
finallyClear(c) == [saveInProgressRef EXCEPT ![c] = FALSE]

\* The running call ends (return true, return false or throw).
Finish(c, result) ==
  /\ saveInProgressRef' = finallyClear(c)
  /\ pc' = [pc EXCEPT ![c] = "idle"]
  /\ retries' = [retries EXCEPT ![c] = 0]
  /\ currentState' = [currentState EXCEPT ![c] = defaultState]
  /\ operation' = [operation EXCEPT ![c] = NoOp]
  /\ pendingOp' = [pendingOp EXCEPT ![c] = NoOp]
  /\ request' = [request EXCEPT ![c] = NoRequest]
  /\ submissions' = [submissions EXCEPT ![c] = 0]
  /\ outcome' = [outcome EXCEPT ![c] = result]
  /\ outstanding' = [outstanding EXCEPT ![c] = @ - 1]

\* Variant: the document the server returned is not shown when the loop ends.
DrainKeepsCandidate(c, cur) ==
  IF Len(pendingOperationsRef[c]) = 0
  THEN /\ Finish(c, "true")
       /\ UNCHANGED <<state, pendingOperationsRef>>
  ELSE LET op == Head(pendingOperationsRef[c])
           pendingNewState == Apply(op, cur)
       IN
       /\ pendingOperationsRef' = [pendingOperationsRef EXCEPT ![c] = Tail(@)]
       /\ pendingOp' = [pendingOp EXCEPT ![c] = op]
       /\ state' = [state EXCEPT ![c] = pendingNewState]
       /\ request' = [request EXCEPT ![c] =
                        [state |-> pendingNewState, version |-> cur.version]]
       /\ currentState' = [currentState EXCEPT ![c] = cur]
       /\ pc' = [pc EXCEPT ![c] = "awaitPending"]
       /\ submissions' = [submissions EXCEPT ![c] = 0]
       /\ outstanding' = [outstanding EXCEPT ![c] = @ - 1 + 1]
       /\ UNCHANGED <<saveInProgressRef, retries, operation, outcome>>

\* The drain loop from its test to its next await, from known document `cur`:
\* with nothing pending the call returns true; otherwise the front operation is
\* taken off the queue, applied, shown and PUT.
Drain(c, cur) ==
  IF Len(pendingOperationsRef[c]) = 0
  THEN /\ Finish(c, "true")
       /\ state' = [state EXCEPT ![c] = cur]
       /\ UNCHANGED pendingOperationsRef
  ELSE LET op == Head(pendingOperationsRef[c])
           pendingNewState == Apply(op, cur)
       IN
       /\ pendingOperationsRef' = [pendingOperationsRef EXCEPT ![c] = Tail(@)]
       /\ pendingOp' = [pendingOp EXCEPT ![c] = op]
       /\ state' = [state EXCEPT ![c] = pendingNewState]
       /\ request' = [request EXCEPT ![c] =
                        [state |-> pendingNewState, version |-> cur.version]]
       /\ currentState' = [currentState EXCEPT ![c] = cur]
       /\ pc' = [pc EXCEPT ![c] = "awaitPending"]
       /\ submissions' = [submissions EXCEPT ![c] = 0]
       /\ outstanding' = [outstanding EXCEPT ![c] = @ - 1 + 1]
       /\ UNCHANGED <<saveInProgressRef, retries, operation, outcome>>

\* The head operation's PUT is answered 200.
HeadAccepted(c) ==
  /\ pc[c] = "awaitHead"
  /\ LET resp == putState(blob, request[c])
         completeState == ensureStateComplete(resp.state)
     IN
     /\ resp.status = 200
     /\ blob' = resp.blob
     /\ accepted' = Append(accepted, OpId(operation[c]))
     /\ confirmed' = [confirmed EXCEPT ![c] = completeState]
     /\ Drain(c, completeState)
  /\ UNCHANGED <<nextOp, caller>>
  /\ lastOp' = [op |-> operation[c], base |-> request[c].version]
  /\ UNCHANGED <<serverVars, fetched, views>>

\* Variant: after a 409 the loop retries from the document it already had.
HeadConflictNoRebase(c) ==
  /\ pc[c] = "awaitHead"
  /\ LET resp == putState(blob, request[c]) IN
     /\ resp.status = 409
     /\ blob' = resp.blob
     /\ confirmed' = [confirmed EXCEPT ![c] = ensureStateComplete(resp.state)]
     /\ state' = [state EXCEPT ![c] = currentState[c]]
     /\ IF retries[c] + 1 < maxRetries
        THEN /\ retries' = [retries EXCEPT ![c] = @ + 1]
             /\ pc' = [pc EXCEPT ![c] = "delay"]
             /\ outstanding' = [outstanding EXCEPT ![c] = @ - 1]
             /\ UNCHANGED <<saveInProgressRef, currentState, operation, pendingOp,
                            request, submissions, outcome>>
        ELSE Finish(c, "false")
  /\ UNCHANGED <<pendingOperationsRef, nextOp, caller, accepted>>
  /\ UNCHANGED <<serverVars, lastOp, fetched, views>>

\* Variant: the loop allows one attempt more than maxRetries.
HeadConflictExtraAttempt(c) ==
  /\ pc[c] = "awaitHead"
  /\ LET resp == putState(blob, request[c])
         cur == ensureStateComplete(resp.state)
     IN
     /\ resp.status = 409
     /\ blob' = resp.blob
     /\ confirmed' = [confirmed EXCEPT ![c] = cur]
     /\ state' = [state EXCEPT ![c] = cur]
     /\ IF retries[c] + 1 <= maxRetries
        THEN /\ retries' = [retries EXCEPT ![c] = @ + 1]
             /\ currentState' = [currentState EXCEPT ![c] = cur]
             /\ pc' = [pc EXCEPT ![c] = "delay"]
             /\ outstanding' = [outstanding EXCEPT ![c] = @ - 1]
             /\ UNCHANGED <<saveInProgressRef, operation, pendingOp, request,
                            submissions, outcome>>
        ELSE Finish(c, "false")
  /\ UNCHANGED <<pendingOperationsRef, nextOp, caller, accepted>>
  /\ UNCHANGED <<serverVars, lastOp, fetched, views>>

\* The head operation's PUT is answered 409: the returned document is adopted
\* and shown, and the loop either waits before the next attempt or gives up.
HeadConflict(c) ==
  /\ pc[c] = "awaitHead"
  /\ LET resp == putState(blob, request[c])
         cur == ensureStateComplete(resp.state)
     IN
     /\ resp.status = 409
     /\ blob' = resp.blob
     /\ confirmed' = [confirmed EXCEPT ![c] = cur]
     /\ state' = [state EXCEPT ![c] = cur]
     /\ IF retries[c] + 1 < maxRetries
        THEN /\ retries' = [retries EXCEPT ![c] = @ + 1]
             /\ currentState' = [currentState EXCEPT ![c] = cur]
             /\ pc' = [pc EXCEPT ![c] = "delay"]
             /\ outstanding' = [outstanding EXCEPT ![c] = @ - 1]
             /\ UNCHANGED <<saveInProgressRef, operation, pendingOp, request,
                            submissions, outcome>>
        ELSE Finish(c, "false")
  /\ UNCHANGED <<pendingOperationsRef, nextOp, caller, accepted>>
  /\ UNCHANGED <<serverVars, lastOp, fetched, views>>

\* The 100 ms delay is over: the operation is applied to the adopted document
\* and PUT again.
RetryAfterDelay(c) ==
  /\ pc[c] = "delay"
  /\ LET newState == Apply(operation[c], currentState[c]) IN
     /\ state' = [state EXCEPT ![c] = newState]
     /\ request' = [request EXCEPT ![c] =
                      [state |-> newState, version |-> currentState[c].version]]
  /\ pc' = [pc EXCEPT ![c] = "awaitHead"]
  /\ submissions' = [submissions EXCEPT ![c] = @ + 1]
  /\ outstanding' = [outstanding EXCEPT ![c] = @ + 1]
  /\ UNCHANGED <<blob, saveInProgressRef, pendingOperationsRef, retries,
                 currentState, operation, pendingOp, nextOp, caller, accepted, outcome,
                 confirmed>>
  /\ UNCHANGED <<serverVars, lastOp, fetched, views>>

\* The head operation's PUT fails with an error that is no 409 (network
\* failure, 401, 500) and the store is not written: the outer catch rethrows.
HeadThrow(c) ==
  /\ pc[c] = "awaitHead"
  /\ Finish(c, "threw")
  /\ UNCHANGED <<blob, state, pendingOperationsRef, nextOp, caller, accepted, confirmed>>
  /\ UNCHANGED <<serverVars, lastOp, fetched, views>>

\* The server accepts the head operation's PUT and the response does not
\* arrive (fetch rejects): the outer catch rethrows.
HeadResponseLost(c) ==
  /\ pc[c] = "awaitHead"
  /\ LET resp == putState(blob, request[c]) IN
     /\ resp.status = 200
     /\ blob' = resp.blob
     /\ accepted' = Append(accepted, OpId(operation[c]))
  /\ Finish(c, "threw")
  /\ UNCHANGED <<state, pendingOperationsRef, nextOp, caller, confirmed>>
  /\ lastOp' = [op |-> operation[c], base |-> request[c].version]
  /\ UNCHANGED <<serverVars, fetched, views>>

\* A queued operation's PUT is answered 200.
PendingAccepted(c) ==
  /\ pc[c] = "awaitPending"
  /\ LET resp == putState(blob, request[c])
         completePendingState == ensureStateComplete(resp.state)
     IN
     /\ resp.status = 200
     /\ blob' = resp.blob
     /\ accepted' = Append(accepted, OpId(pendingOp[c]))
     /\ confirmed' = [confirmed EXCEPT ![c] = completePendingState]
     /\ Drain(c, completePendingState)
  /\ UNCHANGED <<nextOp, caller>>
  /\ lastOp' = [op |-> pendingOp[c], base |-> request[c].version]
  /\ UNCHANGED <<serverVars, fetched, views>>

\* Variant: after a 409 the queued operation is sent again from the document
\* the loop already had.
PendingConflictStale(c) ==
  /\ pc[c] = "awaitPending"
  /\ LET resp == putState(blob, request[c]) IN
     /\ resp.status = 409
     /\ blob' = resp.blob
     /\ confirmed' = [confirmed EXCEPT ![c] = ensureStateComplete(resp.state)]
  /\ UNCHANGED <<state, saveInProgressRef, pendingOperationsRef, pc, retries,
                 currentState, operation, pendingOp, request, nextOp, caller,
                 accepted, submissions, outcome>>
  /\ outstanding' = [outstanding EXCEPT ![c] = @ - 1 + 1]
  /\ UNCHANGED <<serverVars, lastOp, fetched, views>>

\* Variant: after a 409 the queued operation is put back at the front of the
\* queue and stays there while it is sent again.
PendingConflictKeepsQueued(c) ==
  /\ pc[c] = "awaitPending"
  /\ LET resp == putState(blob, request[c])
         cur == ensureStateComplete(resp.state)
         pendingNewState == Apply(pendingOp[c], cur)
     IN
     /\ resp.status = 409
     /\ blob' = resp.blob
     /\ confirmed' = [confirmed EXCEPT ![c] = cur]
     /\ currentState' = [currentState EXCEPT ![c] = cur]
     /\ state' = [state EXCEPT ![c] = pendingNewState]
     /\ request' = [request EXCEPT ![c] =
                      [state |-> pendingNewState, version |-> cur.version]]
  /\ pendingOperationsRef' = [pendingOperationsRef EXCEPT ![c] = <<pendingOp[c]>> \o @]
  /\ UNCHANGED <<saveInProgressRef, pc, retries, operation,
                 pendingOp, nextOp, caller, accepted, submissions, outcome>>
  /\ outstanding' = [outstanding EXCEPT ![c] = @ - 1 + 1]
  /\ UNCHANGED <<serverVars, lastOp, fetched, views>>

\* A queued operation's PUT is answered 409: the returned document is adopted,
\* the operation goes back to the front of the queue and the loop takes it again.
PendingConflict(c) ==
  /\ pc[c] = "awaitPending"
  /\ LET resp == putState(blob, request[c])
         cur == ensureStateComplete(resp.state)
         pendingNewState == Apply(pendingOp[c], cur)
     IN
     /\ resp.status = 409
     /\ blob' = resp.blob
     /\ confirmed' = [confirmed EXCEPT ![c] = cur]
     /\ currentState' = [currentState EXCEPT ![c] = cur]
     /\ state' = [state EXCEPT ![c] = pendingNewState]
     /\ request' = [request EXCEPT ![c] =
                      [state |-> pendingNewState, version |-> cur.version]]
  /\ UNCHANGED <<saveInProgressRef, pendingOperationsRef, pc, retries, operation,
                 pendingOp, nextOp, caller, accepted, submissions, outcome>>
  /\ outstanding' = [outstanding EXCEPT ![c] = @ - 1 + 1]
  /\ UNCHANGED <<serverVars, lastOp, fetched, views>>

\* A queued operation's PUT fails with an error that is no 409 and the store is
\* not written: the inner catch rethrows, the outer catch rethrows, and the
\* operation taken off the queue is not put back.
PendingThrow(c) ==
  /\ pc[c] = "awaitPending"
  /\ Finish(c, "threw")
  /\ UNCHANGED <<blob, state, pendingOperationsRef, nextOp, caller, accepted, confirmed>>
  /\ UNCHANGED <<serverVars, lastOp, fetched, views>>

\* The server accepts a queued operation's PUT and the response does not arrive.
PendingResponseLost(c) ==
  /\ pc[c] = "awaitPending"
  /\ LET resp == putState(blob, request[c]) IN
     /\ resp.status = 200
     /\ blob' = resp.blob
     /\ accepted' = Append(accepted, OpId(pendingOp[c]))
  /\ Finish(c, "threw")
  /\ UNCHANGED <<state, pendingOperationsRef, nextOp, caller, confirmed>>
  /\ lastOp' = [op |-> pendingOp[c], base |-> request[c].version]
  /\ UNCHANGED <<serverVars, fetched, views>>

\* GET responses of one client that can be on their way at once.
MaxFetches == 1

\* refreshState up to its await: the GET is answered with the stored document,
\* and the response is on its way.
RefreshServed(c) ==
  /\ Cardinality(fetched[c]) < MaxFetches
  /\ fetched' = [fetched EXCEPT ![c] = @ \cup {getState(blob)}]
  /\ UNCHANGED <<blob, state, saveInProgressRef, pendingOperationsRef, pc, retries,
                 currentState, operation, pendingOp, request, nextOp, caller,
                 accepted, submissions, outcome, confirmed, outstanding>>
  /\ UNCHANGED <<serverVars, lastOp, views>>

\* refreshState after its await: the document of the response is shown.
RefreshDelivered(c) ==
  \E serverState \in fetched[c] :
    /\ state' = [state EXCEPT ![c] = ensureStateComplete(serverState)]
    /\ fetched' = [fetched EXCEPT ![c] = @ \ {serverState}]
    /\ UNCHANGED <<blob, saveInProgressRef, pendingOperationsRef, pc, retries,
                   currentState, operation, pendingOp, request, nextOp, caller,
                   accepted, submissions, outcome, confirmed, outstanding>>
    /\ UNCHANGED <<serverVars, lastOp, views>>

\* refreshState's await throws (the response does not arrive): the catch
\* reports it and the local document stays.
RefreshFailed(c) ==
  \E serverState \in fetched[c] :
    /\ fetched' = [fetched EXCEPT ![c] = @ \ {serverState}]
    /\ UNCHANGED <<blob, state, saveInProgressRef, pendingOperationsRef, pc, retries,
                   currentState, operation, pendingOp, request, nextOp, caller,
                   accepted, submissions, outcome, confirmed, outstanding>>
    /\ UNCHANGED <<serverVars, lastOp, views>>

----------------------------------------------------------------------------
\* Specifications

\* What a client does once the call it awaits returns: with a response from
\* the gate, or with a failure as well.
ReliableStep(c) ==
  \/ HeadAccepted(c)
  \/ HeadConflict(c)
  \/ RetryAfterDelay(c)
  \/ PendingAccepted(c)
  \/ PendingConflict(c)

FailureStep(c) ==
  \/ HeadThrow(c)
  \/ HeadResponseLost(c)
  \/ PendingThrow(c)
  \/ PendingResponseLost(c)

Next ==
  \E c \in Clients :
    \/ saveWithRetryQueued(c)
    \/ saveWithRetryStart(c)
    \/ ReliableStep(c)
    \/ FailureStep(c)

Spec == Init /\ [][Next]_vars

\* Every awaited call returns: a pending PUT is answered unless it fails first,
\* and a delay ends.
FairSpec == Spec /\ \A c \in Clients : WF_vars(ReliableStep(c))

\* Every gate call returns accept or conflict.
NextReliable ==
  \E c \in Clients :
    \/ saveWithRetryQueued(c)
    \/ saveWithRetryStart(c)
    \/ ReliableStep(c)

SpecReliable == Init /\ [][NextReliable]_vars

FairReliable == SpecReliable /\ \A c \in Clients : WF_vars(ReliableStep(c))

\* Total number of saveWithRetry calls of the clients that also call
\* refreshState.
MaxSaves == 3

\* Clients that call saveWithRetry and refreshState; every gate call returns
\* accept or conflict.
NextRefresh ==
  \E c \in Clients :
    \/ nextOp < MaxSaves /\ saveWithRetryQueued(c)
    \/ nextOp < MaxSaves /\ saveWithRetryStart(c)
    \/ ReliableStep(c)
    \/ RefreshServed(c)
    \/ RefreshDelivered(c)
    \/ RefreshFailed(c)

SpecRefresh == Init /\ [][NextRefresh]_vars

\* Clients that add, remove and assign recipes; every gate call returns accept
\* or conflict.
NextReferencing ==
  \E c \in Clients :
    \/ ReferencingQueued(c)
    \/ ReferencingStart(c)
    \/ ReliableStep(c)

SpecReferencing == Init /\ [][NextReferencing]_vars

\* A saveWithRetry call of one of the operations with no save in progress.
OperationStart(c) ==
  \E op \in Operations(nextOp + 1) :
    /\ nextOp < MaxCalls
    /\ StartOperation(c, op)

\* One client calling the operations one after another, each call accepted
\* before the next is made.
NextOperations ==
  \E c \in {"A"} :
    \/ OperationStart(c)
    \/ HeadAccepted(c)

SpecOperations == InitLoaded /\ [][NextOperations]_vars

\* Number of calls of the client whose views are rendered.
MaxRenderedCalls == 1

\* One client calling the operations one after another, its views rendered at
\* any time.
NextViews ==
  \E c \in {"A"} :
    \/ nextOp < MaxRenderedCalls /\ OperationStart(c)
    \/ HeadAccepted(c)
    \/ Render(c)

SpecViews == InitLoaded /\ [][NextViews]_vars

\* The state endpoint with requests of both clients under way at once; every
\* store access succeeds.
NextRace ==
  \E c \in Clients :
    \/ Unauthorized(c)
    \/ VersionRequired(c)
    \/ MethodNotAllowed(c)
    \/ HandleGet(c)
    \/ GateRead(c)
    \/ GateReject(c)
    \/ GateAccept(c)

SpecRace == Init /\ [][NextRace]_vars

\* No request of another client is being handled.
Alone(c) == \A d \in Clients \ {c} : handlerPc[d] = "idle"

\* The state endpoint handling one request at a time; a store access can fail.
NextSerial ==
  \E c \in Clients :
    \/ Alone(c) /\ Unauthorized(c)
    \/ Alone(c) /\ VersionRequired(c)
    \/ Alone(c) /\ MethodNotAllowed(c)
    \/ Alone(c) /\ HandleGet(c)
    \/ Alone(c) /\ HandleGetReadFails(c)
    \/ Alone(c) /\ GateRead(c)
    \/ Alone(c) /\ GateReadFails(c)
    \/ Alone(c) /\ GateReject(c)
    \/ Alone(c) /\ GateAccept(c)
    \/ Alone(c) /\ GateSaveFails(c)

SpecSerial == Init /\ [][NextSerial]_vars

\* The state endpoint with requests of both clients under way at once and
\* store accesses that can fail.
NextHandler ==
  \E c \in Clients :
    \/ Unauthorized(c)
    \/ VersionRequired(c)
    \/ MethodNotAllowed(c)
    \/ HandleGet(c)
    \/ HandleGetReadFails(c)
    \/ GateRead(c)
    \/ GateReadFails(c)
    \/ GateReject(c)
    \/ GateAccept(c)
    \/ GateSaveFails(c)

SpecHandler == Init /\ [][NextHandler]_vars

----------------------------------------------------------------------------
\* Properties

Stored == getState(blob)

Awaiting(c) == pc[c] \in {"awaitHead", "awaitPending"}

Idle == \A c \in Clients : pc[c] = "idle"

\* The PUT client c awaits fails in this step.
Threw(c) == Awaiting(c) /\ pc'[c] = "idle" /\ outcome'[c] = "threw"

\* The PUT client c awaits is answered by the gate in this step.
Responded(c) ==
  /\ Awaiting(c)
  /\ pc'[c] # pc[c] \/ request'[c] # request[c]
  /\ ~Threw(c)

Pos(seq, x) == CHOOSE i \in 1..Len(seq) : seq[i] = x

InSeq(seq, x) == \E i \in 1..Len(seq) : seq[i] = x

\* C1: version monotonicity.  The store changes only by an accepted submit, and
\* every accepted submit leaves the stored version at expectedVersion + 1, one
\* more than the version stored before it.
VersionMonotonic ==
  [][/\ (blob' # blob => accepted' # accepted)
     /\ (accepted' # accepted =>
           LET c == caller[accepted'[Len(accepted')]] IN
           /\ Awaiting(c)
           /\ getState(blob').version = request[c].version + 1
           /\ getState(blob').version = Stored.version + 1)]_vars

AcceptedTwice == Len(accepted) = 2 /\ Stored.version = 2

\* C2: conflict correctness.  A submit whose expected version is not the stored
\* version is rejected: the store and the accepted writes stay as they are and
\* the submitting client receives exactly the stored document.
ConflictCorrect ==
  [][\A c \in Clients :
       (Awaiting(c) /\ request[c].version # Stored.version /\ Responded(c))
       => /\ blob' = blob
          /\ accepted' = accepted
          /\ confirmed'[c] = Stored
          /\ IF pc[c] = "awaitHead"
             THEN state'[c] = Stored
             ELSE currentState'[c] = Stored]_vars

\* Both clients held version 0, the other client's write was accepted first,
\* and this client's submit came back with the document stored at version 1.
ConflictSeen ==
  \E c \in Clients :
    /\ pc[c] = "delay"
    /\ retries[c] = 1
    /\ request[c].version = 0
    /\ Len(accepted) = 1
    /\ caller[accepted[1]] # c
    /\ Stored.version = 1
    /\ currentState[c] = Stored

\* C3: no lost updates.  When exactly two add-recipe calls have been made from
\* the empty document and no call is running any more, the stored document
\* holds both recipes and has version 2.
NoLostUpdates ==
  (nextOp = 2 /\ Idle) =>
    /\ RecipeIds(Stored) = {1, 2}
    /\ Len(Stored.recipes) = 2
    /\ Stored.version = 2

\* Two clients: the call made second was accepted first, so the two overlapped.
BothAddedConcurrently ==
  /\ nextOp = 2
  /\ Idle
  /\ accepted = <<2, 1>>
  /\ caller[1] # caller[2]
  /\ RecipeIds(Stored) = {1, 2}

\* C4: the in-flight flag always clears.  Whenever no call of a client is
\* running, however its last one ended, its flag is false, and its next
\* saveWithRetry call submits its own operation instead of queueing it.
InFlightFlagClears ==
  /\ [](\A c \in Clients : pc[c] = "idle" => ~saveInProgressRef[c])
  /\ [][\A c \in Clients :
          (pc[c] = "idle" /\ nextOp' = nextOp + 1 /\ caller'[nextOp'] = c)
          => /\ pc'[c] = "awaitHead"
             /\ pendingOperationsRef'[c] = pendingOperationsRef[c]
             /\ OpId(operation'[c]) = nextOp']_vars

\* A call ended by a throw and the client's next call is submitting.
SubmitsAfterThrow ==
  \E c \in Clients : outcome[c] = "threw" /\ pc[c] = "awaitHead"

\* Ids of the operations client c holds for later: those in its queue and the
\* one the drain loop has taken off the queue and is submitting.
HeldIds(queue, at, op) ==
  {OpId(queue[i]) : i \in 1..Len(queue)} \cup
  (IF at = "awaitPending" THEN {OpId(op)} ELSE {})

QueuedIds(c) == {OpId(pendingOperationsRef[c][i]) : i \in 1..Len(pendingOperationsRef[c])}

RecipePos(doc, k) == CHOOSE i \in 1..Len(doc.recipes) : doc.recipes[i].id = k

\* C5: queue FIFO.  Of two operations of one client that the gate both
\* accepted, the one enqueued first was accepted first, and the later one's
\* accepted document was built on a document holding the earlier one's recipe.
QueueFIFO ==
  \A i, j \in OpIds :
    (/\ i < j
     /\ caller[i] # "-"
     /\ caller[i] = caller[j]
     /\ InSeq(accepted, i)
     /\ InSeq(accepted, j))
    => /\ Pos(accepted, i) < Pos(accepted, j)
       /\ {i, j} \subseteq RecipeIds(Stored)
       /\ RecipePos(Stored, i) < RecipePos(Stored, j)

\* C6: queued operations eventually apply.  An operation in pendingQueue is
\* eventually accepted by the gate, with no further saveWithRetry call needed.
QueuedEventuallyApplied ==
  \A k \in OpIds :
    (\E c \in Clients : k \in QueuedIds(c)) ~> InSeq(accepted, k)

\* C7: queued operations are never dropped.  An operation a client holds for
\* later stops being held only by being accepted; after a conflict or a failed
\* PUT it is still held.
NeverDropped ==
  [][\A c \in Clients :
       \A k \in HeldIds(pendingOperationsRef[c], pc[c], pendingOp[c]) :
         k \in HeldIds(pendingOperationsRef'[c], pc'[c], pendingOp'[c])
         \/ InSeq(accepted', k)]_vars

\* C8: never hangs.  Every call that started a submission ends, the drain
\* phase included.
NeverHangs ==
  \A c \in Clients : (pc[c] # "idle") ~> (pc[c] = "idle")

\* The drain loop is resubmitting a queued operation on top of a document that
\* a 409 handed back: its last recipe is another client's.
DrainRebased ==
  \E c \in Clients :
    /\ pc[c] = "awaitPending"
    /\ Len(currentState[c].recipes) > 0
    /\ caller[currentState[c].recipes[Len(currentState[c].recipes)].id] # c
    /\ currentState[c] = Stored

\* C9: retry exhaustion.  A call resolves false exactly when the third PUT of
\* its own operation is answered 409; the local document is then the stored
\* document that 409 returned, not the candidate.
RetryExhaustion ==
  /\ [](\A c \in Clients : submissions[c] <= maxRetries)
  /\ [][\A c \in Clients :
          /\ (pc[c] = "awaitHead" /\ pc'[c] = "idle" /\ outcome'[c] = "false")
             => /\ submissions[c] = maxRetries
                /\ request[c].version # Stored.version
                /\ blob' = blob
                /\ state'[c] = Stored
                /\ state'[c] # request[c].state
          /\ (/\ pc[c] = "awaitHead"
              /\ submissions[c] = maxRetries
              /\ request[c].version # Stored.version
              /\ Responded(c))
             => (pc'[c] = "idle" /\ outcome'[c] = "false")]_vars

\* A call has resolved false and the client shows the stored document.
RetriesExhausted ==
  \E c \in Clients :
    /\ pc[c] = "idle"
    /\ outcome[c] = "false"
    /\ state[c] = Stored
    /\ Stored.version >= maxRetries

\* C10: transport failure rollback.  After a PUT fails with an error that is no
\* conflict, the local document is the last document the server returned and is
\* not the candidate that was being submitted.
TransportRollback ==
  [][\A c \in Clients :
       Threw(c) => (state'[c] = confirmed[c] /\ state'[c] # request[c].state)]_vars

\* C11: mutual exclusion of accepted writes.  No two writes the gate accepted
\* were submitted with the same expectedVersion, whatever the interleaving of
\* the gate invocations' store accesses.
MutualExclusion ==
  \A i, j \in 1..Len(acceptedBases) :
    i # j => acceptedBases[i] # acceptedBases[j]

\* C12: no accepted write is based on a stale version.  A submit is accepted
\* only if its expectedVersion is the version of the document the store holds,
\* also when the gate's store read fails, and the stored version never
\* decreases.
NoStaleAccept ==
  [][/\ (acceptedBases' # acceptedBases =>
           acceptedBases'[Len(acceptedBases')] = Stored.version)
     /\ getState(blob').version >= Stored.version]_vars

\* C13: referential integrity.  When every operation names only recipe ids of
\* the issuing client's local document, no document the gate accepted has a
\* DayPlan whose recipeId is neither null nor the id of one of its recipes.
ReferentialIntegrity ==
  \A i \in 1..Len(Stored.calendar) :
    Stored.calendar[i].recipeId # null
    => Stored.calendar[i].recipeId \in RecipeIds(Stored)

\* The operation of a call made with no save in progress has been applied: the
\* call awaits the answer to its first PUT, currentState[c] is the document the
\* operation was applied to and request[c].state the document it produced.
Applied(c, kind) ==
  /\ pc[c] = "awaitHead"
  /\ operation[c].kind = kind
  /\ submissions[c] = 1

\* C14: referential cleanup.  The document removeRecipe(r) produces has no
\* recipe with id r and holds the other recipes as they were; every DayPlan
\* that had recipeId r has recipeId null and its date, and every other DayPlan
\* is as it was.
ReferentialCleanup ==
  \A c \in Clients :
    Applied(c, "removeRecipe") =>
      LET r == operation[c].recipeId
          before == currentState[c]
          after == request[c].state
      IN  /\ \A i \in 1..Len(after.recipes) : after.recipes[i].id # r
          /\ after.recipes = SelectSeq(before.recipes, LAMBDA x : x.id # r)
          /\ Len(after.calendar) = Len(before.calendar)
          /\ \A i \in 1..Len(before.calendar) :
               IF before.calendar[i].recipeId = r
               THEN /\ after.calendar[i].recipeId = null
                    /\ after.calendar[i].date = before.calendar[i].date
               ELSE after.calendar[i] = before.calendar[i]

\* A recipe assigned to a date is removed from a document that holds another
\* recipe assigned to another date.
AssignedRecipeRemoved ==
  \E c \in Clients :
    /\ Applied(c, "removeRecipe")
    /\ LET r == operation[c].recipeId
           before == currentState[c]
           after == request[c].state
       IN  /\ r \in RecipeIds(before)
           /\ Len(after.recipes) >= 1
           /\ \E i, j \in 1..Len(before.calendar) :
                /\ before.calendar[i].recipeId = r
                /\ after.calendar[i].recipeId = null
                /\ before.calendar[j].recipeId \notin {r, null}

\* The recipe the document plans for the date; none when the date has no
\* DayPlan.
RecipeOn(doc, date) ==
  IF findIndex(doc.calendar, date) = 0
  THEN null
  ELSE doc.calendar[findIndex(doc.calendar, date)].recipeId

\* The gate accepts the write client c awaits as the first PUT of its call.
HeadAcceptedNow(c) ==
  /\ pc[c] = "awaitHead"
  /\ Len(accepted') = Len(accepted) + 1
  /\ lastOp'.op = operation[c]

\* C15: swap atomicity.  The acceptance of swapRecipes(D1, D2) takes the store
\* in one step, with one version increment, from a document with r1 on D1 and
\* r2 on D2 to a document with r2 on D1 and r1 on D2, a missing DayPlan
\* counting as no recipe.
SwapAtomicity ==
  [][\A c \in Clients :
       (HeadAcceptedNow(c) /\ operation[c].kind = "swapRecipes") =>
         LET D1 == operation[c].date1
             D2 == operation[c].date2
             after == getState(blob')
         IN  /\ RecipeOn(after, D1) = RecipeOn(Stored, D2)
             /\ RecipeOn(after, D2) = RecipeOn(Stored, D1)
             /\ after.version = Stored.version + 1]_vars

\* A swap of two dates that have different recipes is in flight: the candidate
\* has the two recipes exchanged.
SwapInFlight ==
  \E c \in Clients :
    /\ Applied(c, "swapRecipes")
    /\ LET D1 == operation[c].date1
           D2 == operation[c].date2
       IN  /\ Stored = currentState[c]
           /\ RecipeOn(Stored, D1) # null
           /\ RecipeOn(Stored, D2) # null
           /\ RecipeOn(Stored, D1) # RecipeOn(Stored, D2)
           /\ RecipeOn(request[c].state, D1) = RecipeOn(Stored, D2)
           /\ RecipeOn(request[c].state, D2) = RecipeOn(Stored, D1)

\* C16: idempotent settings replace.  An accepted updateSettings(s) leaves the
\* store with settings s, the recipes and the calendar it had, and the next
\* version; when the operation accepted just before it was updateSettings(s)
\* as well, the settings are the same as after that one and the version is two
\* above the version that one was submitted with.
SettingsIdempotent ==
  [][\A c \in Clients :
       (HeadAcceptedNow(c) /\ operation[c].kind = "updateSettings") =>
         LET s == operation[c].settings
             after == getState(blob')
         IN  /\ after.settings = s
             /\ after.recipes = Stored.recipes
             /\ after.calendar = Stored.calendar
             /\ after.version = Stored.version + 1
             /\ (lastOp.op.kind = "updateSettings" /\ lastOp.op.settings = s)
                => /\ after.settings = Stored.settings
                   /\ after.version = lastOp.base + 2]_vars

\* updateSettings(s) with settings other than the loaded ones has been accepted
\* and the same updateSettings(s) is in flight again.
SettingsSentTwice ==
  \E c \in Clients :
    /\ Applied(c, "updateSettings")
    /\ lastOp.op.kind = "updateSettings"
    /\ lastOp.op.settings = operation[c].settings
    /\ operation[c].settings # defaultSettings
    /\ Stored.settings = operation[c].settings
    /\ Stored.version = lastOp.base + 1
    /\ request[c].state.settings = Stored.settings

\* At most one DayPlan per date.
CalendarKeysUnique(doc) ==
  \A i, j \in 1..Len(doc.calendar) :
    i # j => doc.calendar[i].date # doc.calendar[j].date

\* C17: calendar key uniqueness.  From a document with at most one DayPlan per
\* date, the operations produce, and the store holds, only documents with at
\* most one DayPlan per date.
CalendarKeyUniqueness ==
  /\ CalendarKeysUnique(Stored)
  /\ \A c \in Clients :
       /\ CalendarKeysUnique(state[c])
       /\ pc[c] = "awaitHead" => CalendarKeysUnique(request[c].state)

\* swapRecipes(d, d) has been accepted, d's DayPlan being the last of the
\* calendar, and a meal plan that names twice a date with no DayPlan is in
\* flight: the candidate has one DayPlan for that date.
SameDateTwice ==
  \E c \in Clients :
    /\ lastOp.op.kind = "swapRecipes"
    /\ lastOp.op.date1 = lastOp.op.date2
    /\ findIndex(Stored.calendar, lastOp.op.date1) = Len(Stored.calendar)
    /\ Applied(c, "applyMealPlan")
    /\ Len(operation[c].plan) = 2
    /\ operation[c].plan[1].date = operation[c].plan[2].date
    /\ findIndex(currentState[c].calendar, operation[c].plan[1].date) = 0
    /\ findIndex(request[c].state.calendar, operation[c].plan[1].date)
         = Len(request[c].state.calendar)

\* No two recipes of the document share an id.
RecipeIdsUnique(doc) ==
  \A i, j \in 1..Len(doc.recipes) :
    i # j => doc.recipes[i].id # doc.recipes[j].id

\* C18: recipe id uniqueness.  From a document whose recipes are unique by id,
\* addRecipe, addRecipes, applyMealPlan and removeRecipe lead only to stored
\* documents whose recipes are unique by id.
RecipeIdUniqueness == RecipeIdsUnique(Stored)

\* C19: authentication gate.  The last GET or PUT of a client whose
\* authentication fails was answered 401 at once, and the handler made no
\* store access for it.
AuthenticationGate ==
  \A c \in Clients :
    (/\ httpRequest[c].method \in {"GET", "PUT"}
     /\ authenticateRequest(httpRequest[c]).user = "null")
    => /\ handlerPc[c] = "idle"
       /\ response[c] = unauthorizedResponse
       /\ touched[c] = {}

\* A PUT naming the stored version came with a session token that does not
\* verify, while the store holds an accepted document: it was answered 401.
UnauthenticatedPut ==
  \E c \in Clients :
    /\ httpRequest[c].method = "PUT"
    /\ httpRequest[c].token = "invalid"
    /\ Len(blob) > 0
    /\ httpRequest[c].body.version = JsNumber(Stored.version)
    /\ response[c].status = 401
    /\ touched[c] = {}

\* C20: rejected writes leave the store unchanged.  A PUT whose version field
\* is not a number is answered without a store write; when the gate decides on
\* a submit whose expectedVersion is not the stored version, the store stays
\* as it is and the answer is 409 with exactly the stored document.
RejectedWritesFrame ==
  /\ [](\A c \in Clients :
          (/\ httpRequest[c].method = "PUT"
           /\ authenticateRequest(httpRequest[c]).user # "null"
           /\ typeof(httpRequest[c].body.version) # "number")
          => /\ handlerPc[c] = "idle"
             /\ response[c].status = 400
             /\ "write" \notin touched[c])
  /\ [][\A c \in Clients :
          (/\ handlerPc[c] = "gate"
           /\ handlerPc'[c] = "idle"
           /\ httpRequest[c].body.version.value # Stored.version)
          => /\ blob' = blob
             /\ response'[c].status = 409
             /\ response'[c].body.state = Stored]_vars

\* C21: at most one outstanding submission per client.  However enqueue calls
\* interleave with gate responses and retry delays, at most one PUT issued by
\* a client awaits its response, and a client with a PUT awaiting has its
\* flag set.
OneOutstanding ==
  \A c \in Clients :
    /\ outstanding[c] <= 1
    /\ outstanding[c] = 1 => saveInProgressRef[c]

\* After a conflict and the retry delay a call's second PUT awaits its
\* response, and two enqueue calls made meanwhile have queued their operations.
ResubmittingWithQueue ==
  \E c \in Clients :
    /\ pc[c] = "awaitHead"
    /\ retries[c] = 1
    /\ outstanding[c] = 1
    /\ Len(pendingOperationsRef[c]) = 2

\* C22: local cache reconciliation.  When a call that submitted resolves true
\* with nothing queued, the client's local document is the document its last
\* accepted write returned, and it is the stored document, that write being
\* the last one the gate accepted.
CacheReconciled ==
  [][\A c \in Clients :
       (/\ pc[c] # "idle"
        /\ pc'[c] = "idle"
        /\ outcome'[c] = "true"
        /\ Len(pendingOperationsRef'[c]) = 0)
       => /\ state'[c] = confirmed'[c]
          /\ caller[accepted'[Len(accepted')]] = c
          /\ state'[c] = getState(blob')]_vars

\* A call has resolved true after its queued operation was rebased on another
\* client's write and accepted; the client shows the stored document.
ReconciledAfterDrain ==
  \E c \in Clients :
    /\ pc[c] = "idle"
    /\ outcome[c] = "true"
    /\ Len(pendingOperationsRef[c]) = 0
    /\ Len(accepted) = 3
    /\ caller[accepted[1]] = c
    /\ caller[accepted[2]] # c
    /\ caller[accepted[3]] = c
    /\ state[c] = Stored

SameDaysBut(before, after, i) ==
  /\ Len(after.calendar) = Len(before.calendar)
  /\ \A j \in 1..Len(before.calendar) : j # i => after.calendar[j] = before.calendar[j]

\* C23: the purchase toggle stamps usage in the same operation.
\* toggleGroceriesPurchased(date) on a DayPlan that is not purchased and names
\* a recipe produces one candidate in which that DayPlan is purchased and the
\* recipes with that id, and no others, are changed to have lastUsedAt = date;
\* on a purchased DayPlan it clears the flag and leaves the recipes as they
\* are; on a date with no DayPlan it appends a DayPlan with recipeId null and
\* groceriesPurchased true.  The acceptance of the candidate raises the stored
\* version by one.
ToggleStampsUsage ==
  /\ [](\A c \in Clients :
          Applied(c, "toggleGroceriesPurchased") =>
            LET date == operation[c].date
                before == currentState[c]
                after == request[c].state
                i == findIndex(before.calendar, date)
            IN  /\ after.settings = before.settings
                /\ after.version = before.version
                /\ IF i = 0
                   THEN /\ after.calendar =
                             Append(before.calendar,
                                    [date |-> date, recipeId |-> null,
                                     groceriesPurchased |-> TRUE])
                        /\ after.recipes = before.recipes
                   ELSE /\ SameDaysBut(before, after, i)
                        /\ after.calendar[i].date = date
                        /\ after.calendar[i].recipeId = before.calendar[i].recipeId
                        /\ after.calendar[i].groceriesPurchased
                             = ~groceriesPurchased(before.calendar[i])
                        /\ Len(after.recipes) = Len(before.recipes)
                        /\ \A k \in 1..Len(before.recipes) :
                             IF /\ ~groceriesPurchased(before.calendar[i])
                                /\ before.calendar[i].recipeId # null
                                /\ before.recipes[k].id = before.calendar[i].recipeId
                             THEN /\ after.recipes[k].lastUsedAt = date
                                  /\ after.recipes[k].id = before.recipes[k].id
                             ELSE after.recipes[k] = before.recipes[k])
  /\ [][\A c \in Clients :
          (HeadAcceptedNow(c) /\ operation[c].kind = "toggleGroceriesPurchased")
          => /\ getState(blob') = [request[c].state EXCEPT !.version = Stored.version + 1]
             /\ Len(accepted') = Len(accepted) + 1]_vars

\* A toggle that marked a date purchased and stamped its recipe, one of two
\* recipes, has been accepted, and a second toggle of the date is in flight:
\* its candidate has the flag cleared and the recipes as they were.
ToggledBack ==
  \E c \in Clients :
    /\ Applied(c, "toggleGroceriesPurchased")
    /\ lastOp.op.kind = "toggleGroceriesPurchased"
    /\ lastOp.op.date = operation[c].date
    /\ LET date == operation[c].date
           before == currentState[c]
           after == request[c].state
           i == findIndex(before.calendar, date)
       IN  /\ i >= 1
           /\ groceriesPurchased(before.calendar[i])
           /\ ~groceriesPurchased(after.calendar[i])
           /\ Len(before.recipes) = 2
           /\ \E k, m \in 1..2 :
                /\ before.recipes[k].id = before.calendar[i].recipeId
                /\ "lastUsedAt" \in DOMAIN before.recipes[k]
                /\ before.recipes[k].lastUsedAt = date
                /\ "lastUsedAt" \notin DOMAIN before.recipes[m]
           /\ after.recipes = before.recipes

\* Number of recipes of the document with the id.
Occurrences(doc, id) == Cardinality({i \in 1..Len(doc.recipes) : doc.recipes[i].id = id})

\* No two assignments of the plan name the same date.
DistinctDates(plan) ==
  \A i, j \in 1..Len(plan) : i # j => plan[i].date # plan[j].date

\* C24: meal plan application is all-or-nothing.  The candidate that
\* applyMealPlan(plan) submits for a plan with distinct dates has, for each
\* assignment of the plan, the recipe's id on the date's DayPlan and the
\* recipe exactly once among its recipes; its acceptance stores that candidate
\* with the version raised by one.
MealPlanAllOrNothing ==
  /\ [](\A c \in Clients :
          (Applied(c, "applyMealPlan") /\ DistinctDates(operation[c].plan)) =>
            LET plan == operation[c].plan
                after == request[c].state
            IN  \A i \in 1..Len(plan) :
                  /\ RecipeOn(after, plan[i].date) = plan[i].recipe.id
                  /\ Occurrences(after, plan[i].recipe.id) = 1)
  /\ [][\A c \in Clients :
          (HeadAcceptedNow(c) /\ operation[c].kind = "applyMealPlan")
          => getState(blob') = [request[c].state EXCEPT !.version = Stored.version + 1]]_vars

\* Whether the document has the date marked purchased; a date with no DayPlan
\* and a DayPlan with no flag are not.
PurchasedOn(doc, date) ==
  IF findIndex(doc.calendar, date) = 0
  THEN FALSE
  ELSE groceriesPurchased(doc.calendar[findIndex(doc.calendar, date)])

\* The DayPlans of the document for dates other than the two, in order.
OtherDays(doc, date1, date2) ==
  SelectSeq(doc.calendar, LAMBDA d : d.date \notin {date1, date2})

\* C30: swap frame.  The candidate swapRecipes(d1, d2) produces has the
\* recipes, the settings and the version of the document it was applied to,
\* the same DayPlans for every other date, and the same groceriesPurchased
\* flags on d1 and d2.
SwapFrame ==
  \A c \in Clients :
    Applied(c, "swapRecipes") =>
      LET d1 == operation[c].date1
          d2 == operation[c].date2
          before == currentState[c]
          after == request[c].state
      IN  /\ after.recipes = before.recipes
          /\ after.settings = before.settings
          /\ after.version = before.version
          /\ OtherDays(after, d1, d2) = OtherDays(before, d1, d2)
          /\ PurchasedOn(after, d1) = PurchasedOn(before, d1)
          /\ PurchasedOn(after, d2) = PurchasedOn(before, d2)

\* C26: a failed operation leaves no trace.  Every recipe of the stored
\* document was added by an operation the gate accepted, and a call that
\* starts a save builds its candidate on a document holding only recipes of
\* accepted operations, so an operation whose call threw before the server
\* processed it, or resolved false, shows in no later document.
FailedLeavesNoTrace ==
  /\ [](\A k \in RecipeIds(Stored) : InSeq(accepted, k))
  /\ [][\A c \in Clients :
          (pc[c] = "idle" /\ pc'[c] = "awaitHead")
          => \A k \in RecipeIds(currentState'[c]) : InSeq(accepted, k)]_vars

\* C27: a call's outcome reflects its own operation.  A call that is draining
\* queued operations, its own operation having been accepted, ends only by
\* resolving true, also when the PUT of a queued operation fails with an
\* error that is no conflict.
OutcomeReflectsHead ==
  [][\A c \in Clients :
       (pc[c] = "awaitPending" /\ pc'[c] = "idle") => outcome'[c] = "true"]_vars

\* C28: at-most-once acceptance.  With a gate that handles one request at a
\* time and answers every PUT with accept or conflict, no operation is
\* accepted twice, whatever conflict retries, requeueing and draining its call
\* goes through.
AtMostOnceAccepted ==
  \A i, j \in 1..Len(accepted) : i # j => accepted[i] # accepted[j]

\* A client's queued operation was sent when its first operation was
\* accepted, the other client's write was accepted next, and the queued
\* operation, requeued after its 409, was accepted after that; the stored
\* document holds each of the three recipes once.
AcceptedAfterRequeue ==
  /\ Idle
  /\ accepted = <<1, 3, 2>>
  /\ caller[1] = caller[2]
  /\ caller[3] # caller[1]
  /\ \A k \in 1..3 : Cardinality({i \in 1..Len(Stored.recipes) : Stored.recipes[i].id = k}) = 1

\* The dates shown whose DayPlan names a recipe the document does not hold.
DanglingDates(doc) ==
  {i \in 1..Len(dateStrs) :
     LET dayPlan == find(doc.calendar, "date", dateStrs[i]) IN
     /\ hasRecipeId(dayPlan)
     /\ dayPlan.recipeId \notin RecipeIds(doc)}

\* C25: derived views tolerate dangling references.  Rendering any document,
\* one with a DayPlan naming no existing recipe included, computes the
\* calendar occupancy and the grocery items without an error, and a date with
\* such a DayPlan is an empty slot.
ViewsTolerateDangling ==
  \A c \in Clients :
    views[c].rendered =>
      /\ views[c].groceryItems # TypeError
      /\ \A i \in DanglingDates(views[c].doc) : views[c].dayData[i].recipe = nullRecipe

====
